---------------------------- MODULE Spec2Model ----------------------------
(***************************************************************************)
(* boomersig: the ceremony orchestration of src/src/bs_signing.rs          *)
(* (do_sign), src/src/bs_keygen.rs (do_keygen) and the retry loops of the  *)
(* key handlers of src/src/bs_ui.rs (handle_sign_input,                    *)
(* handle_get_address_input, handle_create_input).                         *)
(*                                                                         *)
(* The relay (join_computation), the threshold-ECDSA engine (Keygen,       *)
(* OfflineStage, SignManual) and secp256k1 are collaborators outside the   *)
(* repository's sources: every call into them is a step whose outcome      *)
(* (value, error, or no answer before the timeout) is chosen by the        *)
(* environment.                                                            *)
(***************************************************************************)
EXTENDS Integers, Sequences, FiniteSets, TLC

(***************************************************************************)
(* Bounds of the model and constants of the program.                       *)
(***************************************************************************)
\* Participant indices the handlers are started with: 0..MaxIndex (u8 fields).
MaxIndex == 2
\* Key-handler invocations (Enter presses that start a ceremony) per behaviour.
MaxInvocations == 1
\* Enter presses on the Create screen per behaviour of SpecKeygen.
MaxKeygens == 2
\* Key events per behaviour of SpecUI.
MaxKeys == 5
\* Length in bytes of a full signature scalar (stands for secp256k1's 32).
ScalarLen == 2
\* `for i in 0..10`
MaxAttempts == 10
\* `sig.push(1)`: the sighash byte appended to the DER signature.
SighashAll == 1

Indices == 0..MaxIndex

\* An absent optional value / an absent file.
None == [tag |-> "none"]
Some(v) == [tag |-> "some", v |-> v]

(***************************************************************************)
(* Byte-level helpers.                                                     *)
(***************************************************************************)
RECURSIVE Flatten(_)
Flatten(ss) == IF ss = <<>> THEN <<>> ELSE Head(ss) \o Flatten(Tail(ss))

\* hex::encode / serialize_hex: two nibbles per byte, high nibble first.
RECURSIVE HexEncode(_)
HexEncode(bytes) ==
    IF bytes = <<>> THEN <<>>
    ELSE <<Head(bytes) \div 16, Head(bytes) % 16>> \o HexEncode(Tail(bytes))

\* hex::decode: fails (None) on an odd number of nibbles.
RECURSIVE HexDecode(_)
HexDecode(nibbles) ==
    IF nibbles = <<>> THEN Some(<<>>)
    ELSE IF Len(nibbles) = 1 THEN None
    ELSE LET rest == HexDecode(Tail(Tail(nibbles)))
         IN  IF rest = None THEN None
             ELSE Some(<<nibbles[1] * 16 + nibbles[2]>> \o rest.v)

(***************************************************************************)
(* Payloads.  data_to_sign is free text; PartiallySignedTransaction::      *)
(* from_str either rejects it or yields a PSBT.                            *)
(***************************************************************************)
TxIn(prev, script, witness) ==
    [previous_output |-> prev, script_sig |-> script, sequence |-> 255,
     witness |-> witness]

PsbtIn(fss, fsw, utxo) ==
    [final_script_sig |-> fss, final_script_witness |-> fsw, has_utxo |-> utxo]

UnsignedTx(prevs) ==
    [version |-> 2,
     input |-> [k \in 1..Len(prevs) |-> TxIn(prevs[k], <<>>, <<>>)],
     output |-> <<[value |-> 50, script_pubkey |-> <<118, 169>>]>>,
     lock_time |-> 0]

\* The text the Sign screen can hold when Enter is pressed.
SignPayloads == {"junk", "psbt0", "psbt1", "psbt2"}

\* The constant of handle_get_address_input.
GetAddressPayload == "fdd4d9893b23aa6cdb357e1606907c6909a1231595549e698f779a141d4534c7"

\* The constant of do_keygen's chained signing call.
KeygenDemoPayload == "boomersig go brrrr"

\* PartiallySignedTransaction::from_str
PsbtFromStr(text) ==
    CASE text = "psbt0" ->
           Some([unsigned_tx |-> UnsignedTx(<<>>), inputs |-> <<>>])
      [] text = "psbt1" ->
           Some([unsigned_tx |-> UnsignedTx(<<11>>),
                 inputs |-> <<PsbtIn(None, None, TRUE)>>])
      [] text = "psbt2" ->
           Some([unsigned_tx |-> UnsignedTx(<<21, 22>>),
                 inputs |-> <<PsbtIn(Some(<<0>>), Some(<<33>>), TRUE),
                              PsbtIn(Some(<<1, 81>>), None, TRUE)>>])
      [] OTHER -> None

UnwrapOrDefault(opt) == IF opt = None THEN <<>> ELSE opt.v

\* Psbt::extract_tx: the unsigned transaction with every input's script_sig and
\* witness taken from the PSBT input's final_script_sig / final_script_witness.
extract_tx(psbt) ==
    [psbt.unsigned_tx EXCEPT !.input =
        [k \in 1..Len(psbt.unsigned_tx.input) |->
            [psbt.unsigned_tx.input[k] EXCEPT
                !.script_sig = UnwrapOrDefault(psbt.inputs[k].final_script_sig),
                !.witness = UnwrapOrDefault(psbt.inputs[k].final_script_witness)]]]

\* Psbt::sighash_ecdsa(input_index, cache): fails when the input does not exist
\* or carries no UTXO; otherwise the legacy sighash of that input, which covers
\* the unsigned transaction and the input index.
sighash_ecdsa(psbt, input_index) ==
    IF input_index + 1 > Len(psbt.inputs) THEN None
    ELSE IF ~psbt.inputs[input_index + 1].has_utxo THEN None
    ELSE Some([alg |-> "sighash_ecdsa", tx |-> psbt.unsigned_tx,
               input |-> input_index])

\* sha2::Sha256 over the bytes of the text.
sha256(text) == [alg |-> "sha256", bytes_of |-> text]

(***************************************************************************)
(* Signatures, keys and scripts.                                           *)
(***************************************************************************)
FullScalar(b) == [k \in 1..ScalarLen |-> b]

\* What SignManual::complete can return: r and s as BigInt::to_bytes gives them
\* (big-endian, no leading zero byte, so a small scalar is shorter than
\* ScalarLen) and the engine's recovery id (u8).
Signatures ==
    { [r |-> FullScalar(200), s |-> FullScalar(7), recid |-> 0],
      [r |-> FullScalar(7), s |-> FullScalar(200), recid |-> 1],
      [r |-> Tail(FullScalar(7)), s |-> FullScalar(7), recid |-> 0],
      [r |-> FullScalar(7), s |-> FullScalar(7), recid |-> 2],
      [r |-> FullScalar(200), s |-> FullScalar(200), recid |-> 4] }

\* RecoveryId::from_i32
RecoveryId_from_i32(id) == IF id \in 0..3 THEN Some(id) ELSE None

\* RecoverableSignature::from_compact: exactly r || s of full length.
from_compact(bytes, recid) ==
    IF Len(bytes) = 2 * ScalarLen
    THEN Some([r |-> SubSeq(bytes, 1, ScalarLen),
               s |-> SubSeq(bytes, ScalarLen + 1, 2 * ScalarLen),
               recid |-> recid])
    ELSE None

RECURSIVE SumBytes(_)
SumBytes(bytes) == IF bytes = <<>> THEN 0 ELSE Head(bytes) + SumBytes(Tail(bytes))

\* The digest as the scalar the curve arithmetic sees (a stand-in numbering).
DigestScalar(data) ==
    IF data.alg = "sha256" THEN 1 + Len(data.bytes_of)
    ELSE 101 + Len(data.tx.input) + data.input

\* secp.recover(msg, sig): a fixed function of (digest, r, s, recovery id); it
\* fails for the recovery ids that name a point the curve does not have.  The
\* curve arithmetic is secp256k1's; this stand-in keeps what the orchestrator
\* relies on: the key is determined by those four values and by nothing else.
recover(data, sig) ==
    IF sig.recid >= 2 THEN None
    ELSE Some([x |-> [k \in 1..ScalarLen |->
                        (DigestScalar(data) + SumBytes(sig.r) + k) % 256],
               y |-> [k \in 1..ScalarLen |->
                        (SumBytes(sig.s) + 2 * k + sig.recid) % 256]])

\* PublicKey::serialize_vec(secp, false): the uncompressed encoding.
serialize_vec(public_key) == <<4>> \o public_key.x \o public_key.y

RECURSIVE StripLeadingZeros(_)
StripLeadingZeros(bytes) ==
    IF Len(bytes) > 1 /\ Head(bytes) = 0 THEN StripLeadingZeros(Tail(bytes))
    ELSE bytes

\* A DER INTEGER: minimal big-endian, a zero byte in front when the top bit is set.
DerInteger(bytes) ==
    LET v == StripLeadingZeros(bytes)
        w == IF v[1] >= 128 THEN <<0>> \o v ELSE v
    IN  <<2, Len(w)>> \o w

\* Signature::serialize_der of sig.to_standard(): SEQUENCE { r, s }.
serialize_der(sig) ==
    LET body == DerInteger(sig.r) \o DerInteger(sig.s)
    IN  <<48, Len(body)>> \o body

\* ScriptBuf::push_slice: a direct push below OP_PUSHDATA1 (76), else OP_PUSHDATA1.
push_slice(script, data) ==
    IF Len(data) < 76 THEN script \o <<Len(data)>> \o data
    ELSE script \o <<76, Len(data)>> \o data

\* The pushes a script decodes to (None when it is not a sequence of pushes).
RECURSIVE DecodePushes(_)
DecodePushes(script) ==
    IF script = <<>> THEN Some(<<>>)
    ELSE LET op == Head(script)
             at == IF op = 76 THEN 3 ELSE 2
             n  == IF op = 76 THEN (IF Len(script) >= 2 THEN script[2] ELSE 0)
                   ELSE op
         IN  IF op > 76 \/ (op = 76 /\ Len(script) < 2) \/ Len(script) < at + n - 1
             THEN None
             ELSE LET rest == DecodePushes(SubSeq(script, at + n, Len(script)))
                  IN  IF rest = None THEN None
                      ELSE Some(<<SubSeq(script, at, at + n - 1)>> \o rest.v)

BuildScriptSigKeyFirst(sig, public_key) ==
    LET der == serialize_der(sig) \o <<SighashAll>>
        s1  == push_slice(<<>>, serialize_vec(public_key))
    IN  push_slice(s1, der)

\* bs_signing.rs 141-150: the script_sig of the finalized input.
BuildScriptSig(sig, public_key) ==
    LET der == serialize_der(sig) \o <<SighashAll>>
        s1  == push_slice(<<>>, der)
    IN  push_slice(s1, serialize_vec(public_key))

\* bs_signing.rs 151-154: the PSBT is parsed again from the payload, input 0
\* takes the script, and the transaction is extracted.
FinalizeTransaction(text, sig, public_key) ==
    LET tx == PsbtFromStr(text).v
        tx2 == [tx EXCEPT !.inputs[1].final_script_sig =
                              Some(BuildScriptSig(sig, public_key))]
    IN  extract_tx(tx2)

\* consensus serialization of a transaction (byte stream).
SerializeInput(in) ==
    <<in.previous_output, Len(in.script_sig)>> \o in.script_sig \o <<in.sequence>>

SerializeOutput(out) ==
    <<out.value, Len(out.script_pubkey)>> \o out.script_pubkey

SerializeTx(tx) ==
    <<tx.version, Len(tx.input)>>
      \o Flatten([k \in 1..Len(tx.input) |-> SerializeInput(tx.input[k])])
      \o <<Len(tx.output)>>
      \o Flatten([k \in 1..Len(tx.output) |-> SerializeOutput(tx.output[k])])
      \o <<tx.lock_time>>

serialize_hex(tx) == HexEncode(SerializeTx(tx))

\* bitcoin::Address::p2pkh(&public_key, Network::Signet): the network's prefix
\* and the hash of the key's encoding.
p2pkh(public_key_hex) ==
    [network |-> "signet", hash160_of |-> HexDecode(public_key_hex).v]

(***************************************************************************)
(* Room names.  A name is the sequence of the pieces format! concatenates: *)
(* literal text, decimal digits, the 64 hex digits of a SHA-256.           *)
(***************************************************************************)
Lit(text) == [piece |-> "text", text |-> text]
Digit(d) == [piece |-> "digit", d |-> d]
\* hex::encode(hasher.finalize()) of the closure sha256 (bs_ui.rs 480-485).
Sha256Hex(text) == [piece |-> "sha256hex", digest |-> sha256(text)]

DecimalConstant(i) == <<Digit(0)>>

\* format!("{}", i) of the loop index.
Decimal(i) == IF i < 10 THEN <<Digit(i)>> ELSE <<Digit(i \div 10), Digit(i % 10)>>

SignRoomWithoutHash(i, data_to_sign) == <<Lit("default-signing")>> \o Decimal(i)

\* bs_ui.rs 492: format!("default-signing{}{}", i, sha256(&data_to_sign))
SignRoom(i, data_to_sign) ==
    <<Lit("default-signing")>> \o Decimal(i) \o <<Sha256Hex(data_to_sign)>>

\* bs_ui.rs 580: format!("default-get_key{}", i)
GetAddressRoom(i, data_to_sign) == <<Lit("default-get_key")>> \o Decimal(i)

\* bs_keygen.rs 58: room: "room".into()
KeygenDemoRoom == <<Lit("room")>>

\* bs_ui.rs 457: room: "default-keygen".into()
KeygenRoom == <<Lit("default-keygen")>>

OnlineRoomSharedWithOffline(room) == room \o <<Lit("-offline")>>

\* format!("{}-offline", args.room) / format!("{}-online", args.room)
OfflineRoom(room) == room \o <<Lit("-offline")>>
OnlineRoom(room) == room \o <<Lit("-online")>>

(***************************************************************************)
(* Engine constructors (their argument checks) and configurations.         *)
(***************************************************************************)
\* vec![1, 2]: the cosigner list of every SigningConfig the program builds.
Parties == <<1, 2>>

\* (threshold, number_of_parties) pairs the Create screen is started with.
KeygenParams == {<<0, 2>>, <<1, 2>>, <<1, 1>>, <<2, 3>>}

\* Keygen::new(index, threshold, number_of_parties)?
KeygenNew(index, threshold, n) ==
    n >= 2 /\ threshold >= 1 /\ threshold < n /\ index >= 1 /\ index <= n

\* The LocalShare a completed key generation yields.
LocalKey(index, threshold, n) == [i |-> index, t |-> threshold, n |-> n]

\* OfflineStage::new(args.idx, args.parties, local_share)
OfflineStageNew(idx, parties, local_share) ==
    /\ Len(parties) >= 2
    /\ idx >= 1 /\ idx <= Len(parties)
    /\ \A k \in 1..Len(parties) : parties[k] >= 1 /\ parties[k] <= local_share.n

\* File contents.  A share file is absent (None), empty (created, nothing
\* written yet) or holds one serialized LocalShare.
Empty == [tag |-> "empty"]
Share(local_key) == [tag |-> "share", key |-> local_key]

\* serde_json::from_slice(&local_share)
ParseLocalShare(content) == IF content.tag = "share" THEN Some(content.key) ELSE None

\* bs_ui.rs 494-506: the SigningConfig of attempt i of the Sign screen.
SignConfig(attempt, text, pi) ==
    [room |-> SignRoom(attempt, text), parties |-> Parties, transaction |-> TRUE,
     local_share |-> pi, data_to_sign |-> text, idx |-> pi]

\* bs_ui.rs 581-593: the SigningConfig of attempt i of the Get Address screen.
GetAddressConfig(attempt, text, pi) ==
    [room |-> GetAddressRoom(attempt, text), parties |-> Parties,
     transaction |-> FALSE, local_share |-> pi, data_to_sign |-> text, idx |-> pi]

\* bs_keygen.rs 57-64: the SigningConfig of do_keygen's chained signing call.
\* The literal names no idx; the index the call runs with is the caller's.
KeygenDemoConfig(config, idx) ==
    [room |-> KeygenDemoRoom, parties |-> Parties, transaction |-> FALSE,
     local_share |-> config.output, data_to_sign |-> KeygenDemoPayload, idx |-> idx]

\* bs_ui.rs 453-461
KeygenConfig(pi, threshold, n) ==
    [output |-> pi, room |-> KeygenRoom, index |-> pi, threshold |-> threshold,
     number_of_parties |-> n]

(***************************************************************************)
(* The step order of do_sign.                                              *)
(***************************************************************************)
NextStepSkippingOnlineJoin(step, transaction) ==
    CASE step = "ReadShare" -> "JoinOffline"
      [] step = "JoinOffline" -> "RunOffline"
      [] step = "RunOffline" -> "ComputeDigest"
      [] step = "ComputeDigest" -> "JoinOnline"
      [] step = "JoinOnline" -> "ExchangePartial"
      [] step = "ExchangePartial" -> "Aggregate"
      [] step = "Aggregate" -> "RecoverPubkey"
      [] step = "RecoverPubkey" ->
           IF transaction THEN "FinalizeTransaction" ELSE "DeriveAddressOnly"
      [] OTHER -> "Done"

\* The statement that follows each statement of do_sign when it does not fail.
NextStep(step, transaction) ==
    CASE step = "ReadShare" -> "JoinOffline"
      [] step = "JoinOffline" -> "RunOffline"
      [] step = "RunOffline" -> "JoinOnline"
      [] step = "JoinOnline" -> "ComputeDigest"
      [] step = "ComputeDigest" -> "ExchangePartial"
      [] step = "ExchangePartial" -> "Aggregate"
      [] step = "Aggregate" -> "RecoverPubkey"
      [] step = "RecoverPubkey" ->
           IF transaction THEN "FinalizeTransaction" ELSE "DeriveAddressOnly"
      [] OTHER -> "Done"

NoAwaitSteps == {}

\* The steps at which do_sign is suspended at an .await, where the timeout of
\* the caller can drop it.
AwaitSteps == {"ReadShare", "JoinOffline", "RunOffline", "JoinOnline",
               "ExchangePartial", "Collect"}

Returned == {"Done", "Failed", "TimedOut"}

(***************************************************************************)
(* The terminal UI.  Two programs hold it: src/src/bs_ui.rs, whose menu    *)
(* has three items and whose handlers run the ceremonies, and              *)
(* src/cli/src/main.rs, whose menu has two items and which runs none.      *)
(***************************************************************************)
Variants == {"bs_ui", "cli"}

\* impl Default for App: every field of every screen state is 0 / empty.
AppDefault(variant) ==
    [variant |-> variant, mode |-> "Menu", exit |-> FALSE,
     create_state |-> [threshold |-> 0, number_of_parties |-> 0,
                       participant_index |-> 0, selected_field |-> 0],
     sign_state |-> [participant_index |-> 0, psbt |-> "", selected_field |-> 0],
     get_address_state |-> [participant_index |-> 0, selected_field |-> 0]]

\* The screens the UI is started on: the default one, and one whose fields
\* were filled in by earlier key events before returning to the menu.
InitialScreens(variant) ==
    { AppDefault(variant),
      [AppDefault(variant) EXCEPT
         !.create_state = [threshold |-> 1, number_of_parties |-> 2,
                           participant_index |-> 1, selected_field |-> 0],
         !.sign_state = [participant_index |-> 1, psbt |-> "psbt1",
                         selected_field |-> 1],
         !.get_address_state =
            IF variant = "bs_ui" THEN [participant_index |-> 2, selected_field |-> 1]
            ELSE @] }

\* crossterm key codes: the arrows, Enter, Esc, Char('q') and any other
\* character.
Keys == {"Up", "Down", "Left", "Right", "Enter", "Esc", "q", "Char"}

\* u8 / usize saturating arithmetic.
saturating_sub(v) == IF v > 0 THEN v - 1 ELSE 0
saturating_add(v) == IF v < 255 THEN v + 1 ELSE 255

\* The index of the last menu item: the bound of handle_menu_input's Down.
MenuLast(variant) == IF variant = "bs_ui" THEN 2 ELSE 1

\* handle_menu_input: the highlighted item is create_state.selected_field.
handle_menu_input(a, key) ==
    LET sel == a.create_state.selected_field IN
    CASE key = "Up" -> [a EXCEPT !.create_state.selected_field = saturating_sub(sel)]
      [] key = "Down" ->
           IF sel < MenuLast(a.variant)
           THEN [a EXCEPT !.create_state.selected_field = sel + 1] ELSE a
      [] key = "Enter" ->
           (CASE sel = 0 -> [a EXCEPT !.mode = "Create"]
              [] sel = 1 -> [a EXCEPT !.mode = "Sign"]
              [] sel = 2 /\ a.variant = "bs_ui" -> [a EXCEPT !.mode = "GetAddress"]
              [] OTHER -> a)
      [] OTHER -> a

\* A Left / Right on a numeric field.
Adjust(v, key) ==
    CASE key = "Left" -> saturating_sub(v)
      [] key = "Right" -> saturating_add(v)
      [] OTHER -> v

\* handle_create_input, but for the ceremony Enter starts in bs_ui.rs.
handle_create_input(a, key) ==
    LET sel == a.create_state.selected_field IN
    CASE key = "Esc" -> [a EXCEPT !.mode = "Menu"]
      [] key = "Up" ->
           IF sel > 0 THEN [a EXCEPT !.create_state.selected_field = sel - 1] ELSE a
      [] key = "Down" ->
           IF sel < 2 THEN [a EXCEPT !.create_state.selected_field = sel + 1] ELSE a
      [] key \in {"Left", "Right"} ->
           (CASE sel = 0 -> [a EXCEPT !.create_state.threshold = Adjust(@, key)]
              [] sel = 1 -> [a EXCEPT !.create_state.number_of_parties = Adjust(@, key)]
              [] sel = 2 -> [a EXCEPT !.create_state.participant_index = Adjust(@, key)]
              [] OTHER -> a)
      [] OTHER -> a

\* TextArea::input: a character or a line break changes the text to the one
\* typed; the other keys move the cursor.
Input(text, key, typed) == IF key \in {"Char", "q", "Enter"} THEN typed ELSE text

\* handle_sign_input, but for the ceremony Enter starts in bs_ui.rs.
handle_sign_input(a, key, typed) ==
    LET sel == a.sign_state.selected_field IN
    CASE key = "Esc" -> [a EXCEPT !.mode = "Menu"]
      [] key \in {"Up", "Down"} -> [a EXCEPT !.sign_state.selected_field = (sel + 1) % 2]
      [] key = "Enter" ->
           IF a.variant = "cli" /\ sel = 1
           THEN [a EXCEPT !.sign_state.psbt = Input(@, key, typed)] ELSE a
      [] OTHER ->
           IF sel = 0
           THEN [a EXCEPT !.sign_state.participant_index = Adjust(@, key)]
           ELSE [a EXCEPT !.sign_state.psbt = Input(@, key, typed)]

\* handle_get_address_input, but for the ceremony Enter starts.
handle_get_address_input(a, key) ==
    LET sel == a.get_address_state.selected_field IN
    CASE key = "Esc" -> [a EXCEPT !.mode = "Menu"]
      [] key = "Up" ->
           IF sel > 0 THEN [a EXCEPT !.get_address_state.selected_field = sel - 1]
           ELSE a
      [] key = "Down" ->
           IF sel < 1 THEN [a EXCEPT !.get_address_state.selected_field = sel + 1]
           ELSE a
      [] key = "Enter" -> a
      [] OTHER ->
           IF sel = 0
           THEN [a EXCEPT !.get_address_state.participant_index = Adjust(@, key)]
           ELSE a

\* Whether 'q' quits in this mode: everywhere in main.rs, everywhere but on
\* the Sign screen in bs_ui.rs.
Quits(a, key) == key = "q" /\ (a.variant = "cli" \/ a.mode # "Sign")

\* handle_key_event
handle_key_event(a, key, typed) ==
    IF Quits(a, key) THEN [a EXCEPT !.exit = TRUE]
    ELSE CASE a.mode = "Menu" -> handle_menu_input(a, key)
           [] a.mode = "Create" -> handle_create_input(a, key)
           [] a.mode = "Sign" -> handle_sign_input(a, key, typed)
           [] a.mode = "GetAddress" -> handle_get_address_input(a, key)

\* The key events whose handler runs a ceremony.
StartsCeremony(a, key) ==
    /\ a.variant = "bs_ui"
    /\ key = "Enter"
    /\ \/ a.mode = "Create"
       \/ a.mode = "Sign" /\ a.sign_state.selected_field = 1
       \/ a.mode = "GetAddress" /\ a.get_address_state.selected_field = 1

\* The numeric fields stay within the model's range of indices.
WithinIndices(a) ==
    /\ a.create_state.threshold \in Indices
    /\ a.create_state.number_of_parties \in Indices
    /\ a.create_state.participant_index \in Indices
    /\ a.sign_state.participant_index \in Indices
    /\ a.get_address_state.participant_index \in Indices

(***************************************************************************)
(* State.                                                                  *)
(***************************************************************************)
VARIABLES
    handler,        \* the key handler that is executing: idle, sign, get_address, create
    invoked,        \* the handler started last: none, sign, get_address, create
    invocations,    \* handlers started so far
    participant_index, \* the screen's participant_index the handler read
    data_to_sign,   \* the handler's local data_to_sign
    i,              \* the loop variable of the handler's `for i in 0..10`
    running,        \* the attempts whose future is alive
    started,        \* attempts started by this invocation
    ok_writes,      \* writes of the success sink by this invocation
    keygen,         \* the locals of the running do_keygen
    run,            \* the locals of the running do_sign
    joined,         \* rooms joined by the running do_keygen / do_sign
    files,          \* the files the program reads and writes
    app,            \* the App of the terminal UI (and which of the two UIs it is)
    keys,           \* key events handled so far
    cosigners,      \* the cosigners of one attempt, each in its do_sign
    online_room     \* the broadcasts sent to the attempt's online room

vars == <<handler, invoked, invocations, participant_index, data_to_sign, i,
          running, started, ok_writes, keygen, run, joined, files, app, keys,
          cosigners, online_room>>

\* The terminal UI.
ui == <<app, keys>>

\* The cosigners of one attempt seen side by side.
exchange == <<cosigners, online_room>>

\* What a statement of do_sign leaves alone besides run, running and joined.
others == <<handler, invoked, invocations, participant_index, data_to_sign, i,
            started, ok_writes, keygen, ui, exchange>>

\* do_sign before its first statement.  incoming is the room whose inbound
\* stream the variable `incoming` is bound to; sources are the rooms the
\* collected partial signatures were received from.
NewRun(args) ==
    [pc |-> "ReadShare", args |-> args, trace |-> <<>>, local_share |-> None,
     i |-> 0, incoming |-> None, outgoing |-> <<>>, partial_signatures |-> 0,
     sources |-> {}, eof |-> FALSE,
     data |-> None, signature |-> None, public_key |-> None,
     completed_with |-> None, ret |-> None]

NoRun == [pc |-> "Idle"]

\* The file systems the program can be started on: no share; the shares of
\* parties 1 and 2 of an earlier 1-of-2 key generation; or party 1's file left
\* empty by a key generation that failed after creating it.
InitialShares ==
    { [k \in Indices |-> None],
      [k \in Indices |-> IF k \in {1, 2} THEN Share(LocalKey(k, 1, 2)) ELSE None],
      [k \in Indices |-> IF k = 1 THEN Empty
                         ELSE IF k = 2 THEN Share(LocalKey(k, 1, 2)) ELSE None] }

Init ==
    /\ handler = "idle"
    /\ invoked = "none"
    /\ invocations = 0
    /\ participant_index = 0
    /\ data_to_sign = ""
    /\ i = 0
    /\ running = {}
    /\ started = 0
    /\ ok_writes = 0
    /\ keygen = [pc |-> "Idle"]
    /\ run = NoRun
    /\ joined = <<>>
    /\ \E sh \in InitialShares :
          files = [share |-> sh, error_raw |-> None, output_raw |-> None,
                   address_raw |-> None, ms_json |-> None]
    /\ app = AppDefault("bs_ui")
    /\ keys = 0
    /\ cosigners = <<>>
    /\ online_room = {}

(***************************************************************************)
(* do_sign, one action per statement (bs_signing.rs 53-176).               *)
(***************************************************************************)
Err(msg) == [ok |-> FALSE, e |-> msg]
Ok(v) == [ok |-> TRUE, v |-> v]

\* do_sign returns.  Under the retry loop it is the attempt's future, which
\* completes; called by do_keygen it is a part of do_keygen's future.
Returns == IF handler = "create" THEN running ELSE running \ {i}

\* A `?` that returns the error.
Fail(step, msg) ==
    /\ run' = [run EXCEPT !.pc = "Failed", !.trace = Append(@, step),
                          !.ret = Err(msg)]
    /\ running' = Returns

\* The statement succeeded; r is the run with the statement's effects.
Advance(step, r) ==
    /\ run' = [r EXCEPT !.pc = NextStep(step, run.args.transaction),
                        !.trace = Append(run.trace, step)]
    /\ UNCHANGED running

ReadShareConsuming ==
    /\ run.pc = "ReadShare"
    /\ LET content == files.share[run.args.local_share] IN
         IF content = None THEN Fail("ReadShare", "cannot read local share")
         ELSE IF ParseLocalShare(content) = None
              THEN Fail("ReadShare", "parse local share")
              ELSE Advance("ReadShare",
                           [run EXCEPT !.local_share = ParseLocalShare(content)])
    /\ files' = [files EXCEPT !.share[run.args.local_share] =
                                IF @ = None THEN None ELSE Empty]
    /\ UNCHANGED <<others, joined>>

\* bs_signing.rs 54-58: tokio::fs::read of the share file, then the parse.
ReadShare ==
    /\ run.pc = "ReadShare"
    /\ LET content == files.share[run.args.local_share] IN
         IF content = None THEN Fail("ReadShare", "cannot read local share")
         ELSE IF ParseLocalShare(content) = None
              THEN Fail("ReadShare", "parse local share")
              ELSE Advance("ReadShare",
                           [run EXCEPT !.local_share = ParseLocalShare(content)])
    /\ UNCHANGED <<others, joined, files>>

JoinOffline ==
    /\ run.pc = "JoinOffline"
    /\ \/ \E assigned \in 1..Len(run.args.parties) :
            /\ Advance("JoinOffline",
                       [run EXCEPT !.i = assigned,
                                   !.incoming = Some(OfflineRoom(run.args.room))])
            /\ joined' = Append(joined, OfflineRoom(run.args.room))
       \/ /\ Fail("JoinOffline", "join offline computation")
          /\ UNCHANGED joined
    /\ UNCHANGED <<others, files>>

RunOffline ==
    /\ run.pc = "RunOffline"
    /\ IF ~OfflineStageNew(run.args.idx, run.args.parties, run.local_share.v)
       THEN Fail("RunOffline", "error creatign offline stage")
       ELSE \/ Advance("RunOffline", run)
            \/ Fail("RunOffline", "protocol execution terminated with error")
    /\ UNCHANGED <<others, joined, files>>

JoinOnline ==
    /\ run.pc = "JoinOnline"
    /\ \/ /\ Advance("JoinOnline",
                     [run EXCEPT !.incoming = Some(OnlineRoom(run.args.room))])
          /\ joined' = Append(joined, OnlineRoom(run.args.room))
       \/ /\ Fail("JoinOnline", "join online computation")
          /\ UNCHANGED joined
    /\ UNCHANGED <<others, files>>

DigestIgnoringTransaction(transaction, text) == Some(sha256(text))

\* bs_signing.rs 84-96: `let data = match args.transaction { ... }`; None when
\* a `?` of the transaction arm returns an error.
Digest(transaction, text) ==
    IF transaction
    THEN LET tx == PsbtFromStr(text) IN
           IF tx = None THEN None ELSE sighash_ecdsa(tx.v, 0)
    ELSE Some(sha256(text))

ComputeDigest ==
    /\ run.pc = "ComputeDigest"
    /\ LET d == Digest(run.args.transaction, run.args.data_to_sign) IN
         IF d = None THEN Fail("ComputeDigest", "cannot compute sighash")
         ELSE Advance("ComputeDigest", [run EXCEPT !.data = d])
    /\ UNCHANGED <<others, joined, files>>

\* The local partial signature SignManual::new yields for a digest.
PartialSignature(data, idx) == [partial_of |-> data, by |-> idx]

ExchangePartialResending ==
    /\ run.pc = "ExchangePartial"
    /\ LET msg == [sender |-> run.i, receiver |-> None,
                   body |-> PartialSignature(run.data.v, run.args.idx)]
       IN  run' = [run EXCEPT !.pc = "Collect",
                              !.trace = Append(@, "ExchangePartial"),
                              !.outgoing = @ \o <<msg, msg>>]
    /\ UNCHANGED <<running, others, joined, files>>

\* bs_signing.rs 98-107: SignManual::new, then the broadcast.
ExchangePartial ==
    /\ run.pc = "ExchangePartial"
    /\ \/ /\ run' = [run EXCEPT
                       !.pc = "Collect",
                       !.trace = Append(@, "ExchangePartial"),
                       !.outgoing = Append(@,
                           [sender |-> run.i, receiver |-> None,
                            body |-> PartialSignature(run.data.v, run.args.idx)])]
          /\ UNCHANGED running
       \/ Fail("ExchangePartial", "sign manual")
       \/ Fail("ExchangePartial", "send partial signature")
    /\ UNCHANGED <<others, joined, files>>

\* incoming.take(number_of_parties - 1)
Take(parties) == Len(parties) - 1

\* bs_signing.rs 109-113: the online stream yields a message, an error, or ends.
\* try_collect returns Ok when the stream has yielded Take(parties) messages or
\* has ended.
Collect ==
    /\ run.pc = "Collect"
    /\ \/ /\ run.partial_signatures < Take(run.args.parties)
          /\ LET n == run.partial_signatures + 1 IN
               run' = [run EXCEPT
                         !.partial_signatures = n,
                         !.sources = @ \cup {run.incoming.v},
                         !.pc = IF n = Take(run.args.parties)
                                THEN NextStep("ExchangePartial", run.args.transaction)
                                ELSE "Collect"]
          /\ UNCHANGED running
       \/ /\ run.partial_signatures < Take(run.args.parties)
          /\ run' = [run EXCEPT
                       !.eof = TRUE,
                       !.pc = NextStep("ExchangePartial", run.args.transaction)]
          /\ UNCHANGED running
       \/ /\ run.partial_signatures < Take(run.args.parties)
          /\ run' = [run EXCEPT !.pc = "Failed",
                                !.ret = Err("receive partial signature")]
          /\ running' = Returns
    /\ UNCHANGED <<others, joined, files>>

\* bs_signing.rs 115-117: signing.complete(&partial_signatures).  The engine
\* sums the partials and verifies the sum against the group key, so a list that
\* is short of a cosigner's partial is rejected; a full list yields a signature
\* or, when a peer's partial is bad, an error.
Aggregate ==
    /\ run.pc = "Aggregate"
    /\ LET r == [run EXCEPT !.completed_with = Some(run.partial_signatures)] IN
         \/ /\ run.partial_signatures = Len(run.args.parties) - 1
            /\ \E sig \in Signatures :
                 Advance("Aggregate", [r EXCEPT !.signature = Some(sig)])
         \/ /\ run' = [r EXCEPT !.pc = "Failed", !.trace = Append(@, "Aggregate"),
                                !.ret = Err("online stage failed")]
            /\ running' = Returns
    /\ UNCHANGED <<others, joined, files>>

\* The superseded path: candidate recovery ids are tried in turn.
RecoverPubkeyTryingAll ==
    /\ run.pc = "RecoverPubkey"
    /\ LET sg == run.signature.v
           Recovers(id) ==
               /\ from_compact(sg.r \o sg.s, id) # None
               /\ recover(run.data.v, from_compact(sg.r \o sg.s, id).v) # None
           candidates == {id \in 0..3 : Recovers(id)}
       IN  IF candidates = {} THEN Fail("RecoverPubkey", "recover")
           ELSE LET id == CHOOSE c \in candidates : \A d \in candidates : c <= d
                    sig == from_compact(sg.r \o sg.s, id)
                IN  Advance("RecoverPubkey",
                            [run EXCEPT !.signature = sig,
                                        !.public_key = recover(run.data.v, sig.v)])
    /\ UNCHANGED <<others, joined, files>>

\* bs_signing.rs 119-132
RecoverPubkey ==
    /\ run.pc = "RecoverPubkey"
    /\ LET sg == run.signature.v
           recid == RecoveryId_from_i32(sg.recid)
           sig == IF recid = None THEN None
                  ELSE from_compact(sg.r \o sg.s, recid.v)
           public_key == IF sig = None THEN None ELSE recover(run.data.v, sig.v)
       IN  IF recid = None THEN Fail("RecoverPubkey", "invalid recovery id")
           ELSE IF sig = None THEN Fail("RecoverPubkey", "invalid signature")
           ELSE IF public_key = None THEN Fail("RecoverPubkey", "recover")
           ELSE Advance("RecoverPubkey",
                        [run EXCEPT !.signature = sig, !.public_key = public_key])
    /\ UNCHANGED <<others, joined, files>>

SigningResultWithoutTx(public_key, local_share, signined_tx) ==
    LET public_key_hex == HexEncode(serialize_vec(public_key)) IN
      [pubkey |-> public_key_hex, address |-> p2pkh(public_key_hex),
       out_dir |-> local_share, signined_tx |-> None]

SigningResultAddressByMode(public_key, local_share, signined_tx) ==
    LET public_key_hex == HexEncode(serialize_vec(public_key)) IN
      [pubkey |-> public_key_hex,
       address |-> IF signined_tx = None THEN p2pkh(public_key_hex)
                   ELSE [network |-> "bitcoin",
                         hash160_of |-> HexDecode(public_key_hex).v],
       out_dir |-> local_share, signined_tx |-> signined_tx]

\* bs_signing.rs 159-164 and 170-175: the SigningResult that is returned.
SigningResult(public_key, local_share, signined_tx) ==
    LET public_key_hex == HexEncode(serialize_vec(public_key)) IN
      [pubkey |-> public_key_hex, address |-> p2pkh(public_key_hex),
       out_dir |-> local_share, signined_tx |-> signined_tx]

\* bs_signing.rs 140-165: the `if args.transaction` branch.
FinalizeTx ==
    /\ run.pc = "FinalizeTransaction"
    /\ \E tx \in {FinalizeTransaction(run.args.data_to_sign, run.signature.v,
                                      run.public_key.v)} :
         \E signined_tx \in {serialize_hex(tx)} :
           run' = [run EXCEPT
                     !.pc = "Done",
                     !.trace = Append(@, "FinalizeTransaction"),
                     !.ret = Ok(SigningResult(run.public_key.v,
                                              run.args.local_share,
                                              Some(signined_tx)))]
    /\ running' = Returns
    /\ UNCHANGED <<others, joined, files>>

\* bs_signing.rs 167-175
DeriveAddressOnly ==
    /\ run.pc = "DeriveAddressOnly"
    /\ run' = [run EXCEPT
                 !.pc = "Done",
                 !.trace = Append(@, "DeriveAddressOnly"),
                 !.ret = Ok(SigningResult(run.public_key.v, run.args.local_share,
                                          None))]
    /\ running' = Returns
    /\ UNCHANGED <<others, joined, files>>

(***************************************************************************)
(* The retry loops of handle_sign_input and handle_get_address_input       *)
(* (bs_ui.rs 487-522 and 578-607).                                         *)
(***************************************************************************)
Loops == {"sign", "get_address"}

DropNothing(alive, attempt) == alive

\* timeout(Duration::from_secs(30), do_sign(config)): on expiry the future of
\* the attempt is dropped.
Drop(alive, attempt) == alive \ {attempt}

\* The timeout of the attempt expires while do_sign is suspended.
Timeout ==
    /\ handler \in Loops
    /\ run.pc \in AwaitSteps
    /\ run' = [run EXCEPT !.pc = "TimedOut", !.ret = Err("Elapsed")]
    /\ running' = Drop(running, i)
    /\ UNCHANGED <<others, joined, files>>

WriteFirstErrorOnly(f, attempt, e) ==
    IF f.error_raw = None THEN [f EXCEPT !.error_raw = Some([attempt |-> attempt, e |-> e])]
    ELSE f

\* std::fs::write("error.raw", format!("{:?}", e)); the attempt is a tag of the
\* model, kept to tell one attempt's error from another's.
WriteError(f, attempt, e) ==
    [f EXCEPT !.error_raw = Some([attempt |-> attempt, e |-> e])]

\* std::fs::write("output.raw", ...) / std::fs::write("address.raw", ...)
WriteOk(f, h, v) ==
    IF h = "sign" THEN [f EXCEPT !.output_raw = Some(v)]
    ELSE [f EXCEPT !.address_raw = Some(v)]

ContinuesAfterOk(ret, attempt) == attempt + 1 < MaxAttempts

ContinuesUnlessShareError(ret, attempt) ==
    /\ ~ret.ok
    /\ ret.e \notin {"cannot read local share", "parse local share"}
    /\ attempt + 1 < MaxAttempts

\* `for i in 0..10` with `break` in the Ok(Ok(ret)) arm: whether the loop runs
\* another iteration after attempt's result ret.
Continues(ret, attempt) == ~ret.ok /\ attempt + 1 < MaxAttempts

\* The SigningConfig the handler h builds for an attempt.
AttemptConfig(h, attempt, text, pi) ==
    IF h = "sign" THEN SignConfig(attempt, text, pi)
    ELSE GetAddressConfig(attempt, text, pi)

\* bs_ui.rs 487-512: the Sign handler reads the screen's participant index pi
\* and text and starts attempt 0.
StartSignWith(pi, text) ==
    /\ handler = "idle"
    /\ invocations < MaxInvocations
    /\ participant_index' = pi
    /\ data_to_sign' = text
    /\ run' = NewRun(SignConfig(0, text, pi))
    /\ handler' = "sign"
    /\ invoked' = "sign"
    /\ invocations' = invocations + 1
    /\ i' = 0
    /\ running' = {0}
    /\ started' = 1
    /\ ok_writes' = 0
    /\ joined' = <<>>
    /\ UNCHANGED <<keygen, files, exchange>>

\* bs_ui.rs 479-522: Enter on the Sign screen with the PSBT field selected,
\* for the participant indices and texts the screen can hold.
StartSign ==
    /\ \E pi \in Indices, text \in SignPayloads : StartSignWith(pi, text)
    /\ UNCHANGED ui

\* bs_ui.rs 574-597: the Get Address handler reads the screen's participant
\* index pi and starts attempt 0.
StartGetAddressWith(pi) ==
    /\ handler = "idle"
    /\ invocations < MaxInvocations
    /\ participant_index' = pi
    /\ run' = NewRun(GetAddressConfig(0, GetAddressPayload, pi))
    /\ data_to_sign' = GetAddressPayload
    /\ handler' = "get_address"
    /\ invoked' = "get_address"
    /\ invocations' = invocations + 1
    /\ i' = 0
    /\ running' = {0}
    /\ started' = 1
    /\ ok_writes' = 0
    /\ joined' = <<>>
    /\ UNCHANGED <<keygen, files, exchange>>

\* bs_ui.rs 567-608: Enter on the Get Address screen with OK selected.
StartGetAddress ==
    /\ \E pi \in Indices : StartGetAddressWith(pi)
    /\ UNCHANGED ui

\* The match on the attempt's result and the loop's next iteration.
HandleResult ==
    /\ handler \in Loops
    /\ run.pc \in Returned
    /\ IF run.ret.ok
       THEN /\ files' = WriteOk(files, handler, run.ret.v)
            /\ ok_writes' = ok_writes + 1
       ELSE /\ files' = WriteError(files, i, run.ret.e)
            /\ UNCHANGED ok_writes
    /\ IF Continues(run.ret, i)
       THEN /\ i' = i + 1
            /\ run' = NewRun(AttemptConfig(handler, i + 1, data_to_sign,
                                           participant_index))
            /\ running' = running \cup {i + 1}
            /\ started' = started + 1
            /\ joined' = <<>>
            /\ UNCHANGED handler
       ELSE /\ handler' = "idle"
            /\ UNCHANGED <<i, run, running, started, joined>>
    /\ UNCHANGED <<invoked, invocations, participant_index, data_to_sign, keygen, ui,
                   exchange>>

(***************************************************************************)
(* do_keygen (bs_keygen.rs 30-73) under handle_create_input's timeout      *)
(* (bs_ui.rs 452-468).                                                     *)
(***************************************************************************)
KeygenAwaitSteps == {"CreateOutput", "Join", "Run", "Persist"}

KFail(msg) ==
    /\ keygen' = [keygen EXCEPT !.pc = "Failed", !.ret = Err(msg)]
    /\ running' = running \ {i}

\* bs_ui.rs 453-465: the Create handler reads the screen's fields and calls
\* do_keygen under the timeout.
StartCreateWith(limit, pi, threshold, n) ==
    /\ handler = "idle"
    /\ invocations < limit
    /\ participant_index' = pi
    /\ keygen' = [pc |-> "CreateOutput", config |-> KeygenConfig(pi, threshold, n),
                  output |-> None, ret |-> None]
    /\ handler' = "create"
    /\ invoked' = "create"
    /\ invocations' = invocations + 1
    /\ i' = 0
    /\ running' = {0}
    /\ started' = 1
    /\ ok_writes' = 0
    /\ joined' = <<>>
    /\ run' = NoRun
    /\ UNCHANGED <<data_to_sign, files, exchange>>

\* bs_ui.rs 452-466: Enter on the Create screen, for the fields it can hold.
StartCreateUpTo(limit) ==
    /\ \E pi \in Indices, tn \in KeygenParams :
         StartCreateWith(limit, pi, tn[1], tn[2])
    /\ UNCHANGED ui

StartCreate == StartCreateUpTo(MaxInvocations)

StartCreateAgain == StartCreateUpTo(MaxKeygens)

CreateOverwriting(f, path) == Some([f EXCEPT !.share[path] = Empty])

CreateNewWithHeader(f, path) ==
    IF f.share[path] = None THEN Some([f EXCEPT !.share[path] = [tag |-> "partial"]])
    ELSE None

\* OpenOptions::new().write(true).create_new(true).open(path): the files after
\* it, or None when the file exists.
CreateNew(f, path) ==
    IF f.share[path] = None THEN Some([f EXCEPT !.share[path] = Empty]) ELSE None

\* bs_keygen.rs 31-36
KCreateOutput ==
    /\ handler = "create"
    /\ keygen.pc = "CreateOutput"
    /\ LET opened == CreateNew(files, keygen.config.output) IN
         IF opened = None
         THEN KFail("cannot create output file") /\ UNCHANGED files
         ELSE /\ files' = opened.v
              /\ keygen' = [keygen EXCEPT !.pc = "Join"]
              /\ UNCHANGED running
    /\ UNCHANGED <<ui, exchange, handler, invoked, invocations, participant_index, data_to_sign,
                   i, started, ok_writes, run, joined>>

\* bs_keygen.rs 38-40
KJoin ==
    /\ handler = "create"
    /\ keygen.pc = "Join"
    /\ \/ /\ keygen' = [keygen EXCEPT !.pc = "Run"]
          /\ joined' = Append(joined, keygen.config.room)
          /\ UNCHANGED running
       \/ KFail("join computation") /\ UNCHANGED joined
    /\ UNCHANGED <<ui, exchange, handler, invoked, invocations, participant_index, data_to_sign,
                   i, started, ok_writes, run, files>>

\* bs_keygen.rs 46-50
KRun ==
    /\ handler = "create"
    /\ keygen.pc = "Run"
    /\ LET c == keygen.config IN
         IF ~KeygenNew(c.index, c.threshold, c.number_of_parties)
         THEN KFail("keygen new")
         ELSE \/ /\ keygen' = [keygen EXCEPT
                       !.pc = "Persist",
                       !.output = Some(LocalKey(c.index, c.threshold,
                                                c.number_of_parties))]
                 /\ UNCHANGED running
              \/ KFail("protocol execution terminated with error")
    /\ UNCHANGED <<ui, exchange, handler, invoked, invocations, participant_index, data_to_sign,
                   i, started, ok_writes, run, joined, files>>

\* bs_keygen.rs 52-66: the share is written, then do_sign is called.
KPersist ==
    /\ handler = "create"
    /\ keygen.pc = "Persist"
    /\ files' = [files EXCEPT !.share[keygen.config.output] = Share(keygen.output.v)]
    /\ keygen' = [keygen EXCEPT !.pc = "DemoSign"]
    /\ \E idx \in Indices : run' = NewRun(KeygenDemoConfig(keygen.config, idx))
    /\ UNCHANGED <<ui, exchange, handler, invoked, invocations, participant_index, data_to_sign,
                   i, running, started, ok_writes, joined>>

KeygenResult(res) == [pubkey |-> res.pubkey, address |-> res.address,
                      out_dir |-> res.out_dir]

\* bs_keygen.rs 66-72: `let res = do_sign(args).await?;` and the result.
KDemoReturn ==
    /\ handler = "create"
    /\ keygen.pc = "DemoSign"
    /\ run.pc \in {"Done", "Failed"}
    /\ keygen' = IF run.ret.ok
                 THEN [keygen EXCEPT !.pc = "Done",
                                     !.ret = Ok(KeygenResult(run.ret.v))]
                 ELSE [keygen EXCEPT !.pc = "Failed", !.ret = run.ret]
    /\ running' = running \ {i}
    /\ UNCHANGED <<ui, exchange, handler, invoked, invocations, participant_index, data_to_sign,
                   i, started, ok_writes, run, joined, files>>

\* bs_ui.rs 464-465: the 30 seconds expire while do_keygen is suspended.
KTimeout ==
    /\ handler = "create"
    /\ \/ keygen.pc \in KeygenAwaitSteps
       \/ keygen.pc = "DemoSign" /\ run.pc \in AwaitSteps
    /\ keygen' = [keygen EXCEPT !.pc = "TimedOut", !.ret = Err("Elapsed")]
    /\ run' = IF keygen.pc = "DemoSign" THEN [run EXCEPT !.pc = "TimedOut"] ELSE run
    /\ running' = Drop(running, i)
    /\ UNCHANGED <<ui, exchange, handler, invoked, invocations, participant_index, data_to_sign,
                   i, started, ok_writes, joined, files>>

\* bs_ui.rs 467: std::fs::write("ms.json", format!("{ret:?}"))
HandleCreateResult ==
    /\ handler = "create"
    /\ keygen.pc \in Returned
    /\ files' = [files EXCEPT !.ms_json = Some(keygen.ret)]
    /\ handler' = "idle"
    /\ UNCHANGED <<ui, exchange, invoked, invocations, participant_index, data_to_sign, i,
                   running, started, ok_writes, keygen, run, joined>>

(***************************************************************************)
(* App::run: the loop reads a key event and calls handle_key_event, which  *)
(* returns when the handler, its ceremony included, has returned.          *)
(***************************************************************************)
RunLoopReadyWhileBusy(a, h) == ~a.exit

\* `while !self.exit`, with no handler executing.
RunLoopReady(a, h) == ~a.exit /\ h = "idle"

\* A key event whose handler runs no ceremony.
Key ==
    /\ RunLoopReady(app, handler)
    /\ keys < MaxKeys
    /\ \E key \in Keys, typed \in SignPayloads :
         /\ ~StartsCeremony(app, key)
         /\ app' = handle_key_event(app, key, typed)
    /\ WithinIndices(app')
    /\ keys' = keys + 1
    /\ UNCHANGED <<handler, invoked, invocations, participant_index, data_to_sign, i,
                   running, started, ok_writes, keygen, run, joined, files, exchange>>

\* bs_ui.rs 452-468: Enter on the Create screen.
EnterCreate ==
    /\ RunLoopReady(app, handler)
    /\ keys < MaxKeys
    /\ StartsCeremony(app, "Enter")
    /\ app.mode = "Create"
    /\ StartCreateWith(MaxInvocations, app.create_state.participant_index,
                       app.create_state.threshold, app.create_state.number_of_parties)
    /\ keys' = keys + 1
    /\ UNCHANGED app

\* bs_ui.rs 479-523: Enter on the Sign screen with the PSBT field selected;
\* the text is taken and the field is emptied.
EnterSign ==
    /\ RunLoopReady(app, handler)
    /\ keys < MaxKeys
    /\ StartsCeremony(app, "Enter")
    /\ app.mode = "Sign"
    /\ StartSignWith(app.sign_state.participant_index, app.sign_state.psbt)
    /\ app' = [app EXCEPT !.sign_state.psbt = ""]
    /\ keys' = keys + 1

EnterGetAddressLeavingScreen ==
    /\ RunLoopReady(app, handler)
    /\ keys < MaxKeys
    /\ StartsCeremony(app, "Enter")
    /\ app.mode = "GetAddress"
    /\ StartGetAddressWith(app.get_address_state.participant_index)
    /\ keys' = keys + 1
    /\ app' = [app EXCEPT !.mode = "Menu"]

\* bs_ui.rs 567-611: Enter on the Get Address screen with OK selected.
EnterGetAddress ==
    /\ RunLoopReady(app, handler)
    /\ keys < MaxKeys
    /\ StartsCeremony(app, "Enter")
    /\ app.mode = "GetAddress"
    /\ StartGetAddressWith(app.get_address_state.participant_index)
    /\ keys' = keys + 1
    /\ UNCHANGED app

(***************************************************************************)
(* The specification.                                                      *)
(***************************************************************************)
do_sign ==
    \/ ReadShare
    \/ JoinOffline
    \/ RunOffline
    \/ JoinOnline
    \/ ComputeDigest
    \/ ExchangePartial
    \/ Collect
    \/ Aggregate
    \/ RecoverPubkey
    \/ FinalizeTx
    \/ DeriveAddressOnly

do_keygen ==
    \/ KCreateOutput
    \/ KJoin
    \/ KRun
    \/ KPersist
    \/ KDemoReturn

Next ==
    \/ StartSign
    \/ StartGetAddress
    \/ StartCreate
    \/ do_sign
    \/ do_keygen
    \/ Timeout
    \/ KTimeout
    \/ HandleResult
    \/ HandleCreateResult

Spec == Init /\ [][Next]_vars

\* The statements of do_sign that await nothing: once reached, they run.
LocalSteps ==
    \/ ComputeDigest
    \/ Aggregate
    \/ RecoverPubkey
    \/ FinalizeTx
    \/ DeriveAddressOnly

\* The scheduling the retry loops rely on: a timeout that is pending expires
\* unless the attempt returns first, a statement that awaits nothing runs,
\* and the handler goes on once its attempt has returned.  Nothing is assumed
\* of the relay, the peers or the file system: an await may never be answered.
SpecLive ==
    /\ Init /\ [][Next]_vars
    /\ WF_vars(Timeout)
    /\ WF_vars(LocalSteps)
    /\ WF_vars(HandleResult)

\* Key generation alone, started more than once.  The signature do_keygen
\* ends with is of a message (transaction: false), so of do_sign's steps
\* the transaction branch FinalizeTx is not among the ones it can take.
NextKeygen ==
    \/ StartCreateAgain
    \/ ReadShare
    \/ JoinOffline
    \/ RunOffline
    \/ JoinOnline
    \/ ComputeDigest
    \/ ExchangePartial
    \/ Collect
    \/ Aggregate
    \/ RecoverPubkey
    \/ DeriveAddressOnly
    \/ do_keygen
    \/ KTimeout
    \/ HandleCreateResult

SpecKeygen == Init /\ [][NextKeygen]_vars

\* The UI, key event by key event, with the ceremonies its handlers run.
InitUI ==
    /\ handler = "idle"
    /\ invoked = "none"
    /\ invocations = 0
    /\ participant_index = 0
    /\ data_to_sign = ""
    /\ i = 0
    /\ running = {}
    /\ started = 0
    /\ ok_writes = 0
    /\ keygen = [pc |-> "Idle"]
    /\ run = NoRun
    /\ joined = <<>>
    /\ \E sh \in InitialShares :
          files = [share |-> sh, error_raw |-> None, output_raw |-> None,
                   address_raw |-> None, ms_json |-> None]
    /\ \E variant \in Variants : app \in InitialScreens(variant)
    /\ keys = 0
    /\ cosigners = <<>>
    /\ online_room = {}

NextUI ==
    \/ Key
    \/ EnterCreate
    \/ EnterSign
    \/ EnterGetAddress
    \/ do_sign
    \/ do_keygen
    \/ Timeout
    \/ KTimeout
    \/ HandleResult
    \/ HandleCreateResult

SpecUI == InitUI /\ [][NextUI]_vars

(***************************************************************************)
(* The partial-signature exchange of one attempt, its cosigners side by    *)
(* side (bs_signing.rs 98-117).  Every cosigner has joined the online room *)
(* and computed the digest; the relay is the boundary contract of the      *)
(* specification (section 4.1): a broadcast is delivered to every other    *)
(* participant of the room, in no particular order.  The timer of the      *)
(* attempts is left out: the exchange is followed while no attempt expires.*)
(***************************************************************************)
MaxCosigners == 3

\* The payload the cosigners sign.
ExchangeData == sha256(GetAddressPayload)

\* The indices the relay issues to the n participants of a room: distinct.
Assignments(n) ==
    {f \in [1..n -> 1..n] : \A a, b \in 1..n : a # b => f[a] # f[b]}

Cosigner(assigned) == [pc |-> "ExchangePartial", i |-> assigned, received |-> <<>>]

InitExchange ==
    /\ handler = "idle"
    /\ invoked = "none"
    /\ invocations = 0
    /\ participant_index = 0
    /\ data_to_sign = ""
    /\ i = 0
    /\ running = {}
    /\ started = 0
    /\ ok_writes = 0
    /\ keygen = [pc |-> "Idle"]
    /\ run = NoRun
    /\ joined = <<>>
    /\ files = [share |-> [k \in Indices |-> None], error_raw |-> None,
                output_raw |-> None, address_raw |-> None, ms_json |-> None]
    /\ app = AppDefault("bs_ui")
    /\ keys = 0
    /\ \E n \in 2..MaxCosigners : \E f \in Assignments(n) :
          cosigners = [p \in 1..n |-> Cosigner(f[p])]
    /\ online_room = {}

\* What the exchange leaves alone.
single == <<handler, invoked, invocations, participant_index, data_to_sign, i,
            running, started, ok_writes, keygen, run, joined, files, ui>>

\* The message of cosigner p (bs_signing.rs 102-106).
Broadcast(p) ==
    [sender |-> cosigners[p].i, receiver |-> None,
     body |-> PartialSignature(ExchangeData, p)]

XSendAfterCollecting(p) ==
    /\ p \in DOMAIN cosigners
    /\ cosigners[p].pc = "ExchangePartial"
    /\ Len(cosigners[p].received) = Take(cosigners)
    /\ online_room' = online_room \cup {Broadcast(p)}
    /\ cosigners' = [cosigners EXCEPT ![p].pc = "Collect"]
    /\ UNCHANGED single

\* bs_signing.rs 98-107: SignManual::new, then outgoing.send(..).await.
XSend(p) ==
    /\ p \in DOMAIN cosigners
    /\ cosigners[p].pc = "ExchangePartial"
    /\ online_room' = online_room \cup {Broadcast(p)}
    /\ cosigners' = [cosigners EXCEPT ![p].pc = "Collect"]
    /\ UNCHANGED single

\* The broadcasts of the room the relay has yet to deliver to cosigner p: those
\* of the other participants that p's stream has not yielded.
Undelivered(p) ==
    {m \in online_room :
        /\ m # Broadcast(p)
        /\ \A k \in 1..Len(cosigners[p].received) : cosigners[p].received[k] # m}

\* bs_signing.rs 109-113: incoming.take(n - 1) yields the next message.
XReceive(p) ==
    /\ p \in DOMAIN cosigners
    /\ cosigners[p].pc = "Collect"
    /\ Len(cosigners[p].received) < Take(cosigners)
    /\ \E m \in Undelivered(p) :
          cosigners' = [cosigners EXCEPT ![p].received = Append(@, m)]
    /\ UNCHANGED <<single, online_room>>

\* bs_signing.rs 109-117: try_collect returns the n - 1 bodies and the cosigner
\* goes on to signing.complete.
XCollected(p) ==
    /\ p \in DOMAIN cosigners
    /\ cosigners[p].pc = "Collect"
    /\ Len(cosigners[p].received) = Take(cosigners)
    /\ cosigners' = [cosigners EXCEPT ![p].pc = "Aggregate"]
    /\ UNCHANGED <<single, online_room>>

NextExchange ==
    \/ \E p \in 1..MaxCosigners : XSend(p)
    \/ \E p \in 1..MaxCosigners : XReceive(p)
    \/ \E p \in 1..MaxCosigners : XCollected(p)

\* Every cosigner keeps running and the relay delivers what it was sent.
SpecExchange ==
    /\ InitExchange
    /\ [][NextExchange]_vars
    /\ \A p \in 1..MaxCosigners :
          WF_vars(XSend(p)) /\ WF_vars(XReceive(p)) /\ WF_vars(XCollected(p))

(***************************************************************************)
(* Reading a serialized transaction back (the inverse of SerializeTx).     *)
(***************************************************************************)
RECURSIVE ParseInputs(_, _, _)
ParseInputs(bytes, at, n) ==
    IF n = 0 THEN [items |-> <<>>, at |-> at]
    ELSE LET len == bytes[at + 1]
             in == [previous_output |-> bytes[at],
                    script_sig |-> SubSeq(bytes, at + 2, at + 1 + len),
                    sequence |-> bytes[at + 2 + len]]
             rest == ParseInputs(bytes, at + 3 + len, n - 1)
         IN  [items |-> <<in>> \o rest.items, at |-> rest.at]

RECURSIVE ParseOutputs(_, _, _)
ParseOutputs(bytes, at, n) ==
    IF n = 0 THEN [items |-> <<>>, at |-> at]
    ELSE LET len == bytes[at + 1]
             out == [value |-> bytes[at],
                     script_pubkey |-> SubSeq(bytes, at + 2, at + 1 + len)]
             rest == ParseOutputs(bytes, at + 2 + len, n - 1)
         IN  [items |-> <<out>> \o rest.items, at |-> rest.at]

DeserializeTx(bytes) ==
    LET ins == ParseInputs(bytes, 3, bytes[2])
        outs == ParseOutputs(bytes, ins.at + 1, bytes[ins.at])
    IN  [version |-> bytes[1], input |-> ins.items, output |-> outs.items,
         lock_time |-> bytes[outs.at], consumed |-> outs.at]

(***************************************************************************)
(* Properties.                                                             *)
(***************************************************************************)
HasRun == run.pc # "Idle"

Range(seq) == {seq[k] : k \in 1..Len(seq)}

IsPrefix(p, q) == Len(p) <= Len(q) /\ SubSeq(q, 1, Len(p)) = p

\* C1: when every attempt of a signing or get-address invocation fails, by
\* error or by timeout, exactly 10 attempts are run, an 11th is never started,
\* and error.raw ends holding the error of the 10th attempt.
C1_ExhaustionSurfacesLastError ==
    /\ started <= MaxAttempts
    /\ i < MaxAttempts
    /\ (handler = "idle" /\ invoked \in Loops /\ ok_writes = 0) =>
          /\ started = MaxAttempts
          /\ run.pc \in {"Failed", "TimedOut"}
          /\ run.args = AttemptConfig(invoked, MaxAttempts - 1, data_to_sign,
                                      participant_index)
          /\ files.error_raw = Some([attempt |-> MaxAttempts - 1, e |-> run.ret.e])

C1_Witness ==
    /\ handler = "idle"
    /\ invoked \in Loops
    /\ ok_writes = 0
    /\ started = MaxAttempts
    /\ files.error_raw = Some([attempt |-> MaxAttempts - 1, e |-> "online stage failed"])

\* C2: the loop stops at the first successful attempt: the handler's step after
\* an attempt returned success writes the result to the success sink and
\* returns without starting an attempt, and the sink is written once.
C2_StopsAtFirstSuccess ==
    /\ [](ok_writes <= 1)
    /\ [](handler \in Loops => ok_writes = 0)
    /\ [][(handler \in Loops /\ run.pc = "Done") =>
            /\ handler' = "idle"
            /\ started' = started
            /\ run' = run
            /\ running' = {}
            /\ ok_writes' = 1
            /\ (IF handler = "sign" THEN files'.output_raw ELSE files'.address_raw)
                  = Some(run.ret.v)]_vars

C2_Witness ==
    /\ handler = "idle"
    /\ invoked = "sign"
    /\ ok_writes = 1
    /\ started = 3
    /\ files.output_raw = Some(run.ret.v)

\* C3: a do_keygen call whose output path already exists fails at the exclusive
\* create: it joins no room, runs no engine, and leaves the file as it was.
C3_SecondKeygenFailsAtCreate ==
    /\ [][(handler = "create" /\ keygen.pc = "CreateOutput"
             /\ files.share[keygen.config.output] # None) =>
            /\ keygen'.pc \in {"Failed", "TimedOut"}
            /\ keygen'.pc = "Failed" => keygen'.ret = Err("cannot create output file")
            /\ files' = files
            /\ joined' = <<>>
            /\ run' = NoRun]_vars
    /\ [][(handler = "create" /\ keygen.pc \in {"Failed", "TimedOut"}) =>
            /\ files'.share = files.share
            /\ joined' = joined
            /\ run' = run]_vars

C3_Witness ==
    /\ invocations = 2
    /\ handler = "create"
    /\ keygen.pc = "Failed"
    /\ keygen.ret = Err("cannot create output file")
    /\ files.ms_json # None
    /\ files.ms_json.v.ok
    /\ files.ms_json.v.v.out_dir = keygen.config.output
    /\ files.share[keygen.config.output].tag = "share"

\* C4: signing.complete is called only with exactly cosignerCount - 1 partial
\* signatures; when the online stream ends before that many have arrived,
\* complete is never called and the run does not reach Done.
C4_AggregationNeedsAllPartials ==
    HasRun =>
      /\ run.completed_with # None =>
            run.completed_with.v = Len(run.args.parties) - 1
      /\ run.eof => run.completed_with = None /\ run.pc # "Done"

\* C5: in both retry loops the room of attempt i is the base name followed by
\* the attempt index and the content hash of the payload.
C5_RoomsCarryIndexAndHash ==
    (handler \in Loops /\ HasRun) =>
       \E base \in {"default-signing", "default-get_key"} :
          run.args.room = <<Lit(base)>> \o Decimal(i)
                             \o <<Sha256Hex(run.args.data_to_sign)>>

\* C6: within one invocation at most one attempt is executing; attempt k+1 is
\* started only when attempt k has returned or its timeout has expired.
C6_AttemptsNeverOverlap ==
    /\ [](Cardinality(running) <= 1 /\ running \subseteq {i})
    /\ []((handler \in Loops /\ run.pc \notin Returned) => running = {i})
    /\ [][(handler \in Loops /\ i' # i) =>
            /\ i' = i + 1
            /\ run.pc \in {"Failed", "TimedOut"}
            /\ running = {}
            /\ running' = {i + 1}]_vars

C6_Witness ==
    /\ handler \in Loops
    /\ i = 1
    /\ running = {1}
    /\ run.pc = "Collect"
    /\ files.error_raw = Some([attempt |-> 0, e |-> "Elapsed"])

\* The states of the signing state machine, in its order.
Canonical(transaction) ==
    <<"JoinOffline", "RunOffline", "JoinOnline", "ComputeDigest", "ExchangePartial",
      "Aggregate", "RecoverPubkey",
      IF transaction THEN "FinalizeTransaction" ELSE "DeriveAddressOnly">>

IsMachineStep(step) == step \in Range(Canonical(TRUE)) \cup Range(Canonical(FALSE))

\* C7: every run of do_sign executes the steps JoinOffline, RunOffline,
\* JoinOnline, ComputeDigest, ExchangePartial, Aggregate, RecoverPubkey, then
\* FinalizeTransaction or DeriveAddressOnly, in this order; it is Done only
\* after all of them, and a run that failed executes no further step.
C7_StepOrder ==
    /\ [](HasRun =>
            LET steps == SelectSeq(run.trace, IsMachineStep) IN
              /\ IsPrefix(steps, Canonical(run.args.transaction))
              /\ run.pc = "Done" => steps = Canonical(run.args.transaction)
              /\ run.pc = "Failed" => run.ret # None /\ ~run.ret.ok)
    /\ [][(HasRun /\ run.pc \in {"Failed", "Done"}) =>
            \/ run' = run
            \/ run' = NoRun
            \/ run'.pc = "ReadShare" /\ run'.trace = <<>>]_vars

C7_Witness ==
    /\ HasRun
    /\ run.pc = "Done"
    /\ run.args.transaction
    /\ run.trace = <<"ReadShare">> \o Canonical(TRUE)

\* C8: the digest is the SHA-256 of the payload text when transaction is false
\* and the ECDSA sighash of input 0 of the parsed PSBT when it is true; a
\* payload that does not parse fails the run before any partial signature is
\* produced or sent.
C8_DigestSelection ==
    HasRun =>
      LET text == run.args.data_to_sign
          psbt == PsbtFromStr(text)
      IN  /\ (run.data # None /\ ~run.args.transaction) =>
                 run.data.v = [alg |-> "sha256", bytes_of |-> text]
          /\ (run.data # None /\ run.args.transaction) =>
                 /\ psbt # None
                 /\ run.data.v = [alg |-> "sighash_ecdsa",
                                  tx |-> psbt.v.unsigned_tx, input |-> 0]
          /\ (run.args.transaction /\ psbt = None) =>
                 /\ run.data = None
                 /\ run.outgoing = <<>>
                 /\ run.pc \in {"ReadShare", "JoinOffline", "RunOffline",
                                "JoinOnline", "ComputeDigest", "Failed", "TimedOut"}
          /\ \A k \in 1..Len(run.outgoing) :
                 run.data # None /\ run.outgoing[k].body.partial_of = run.data.v

C8_Witness ==
    /\ HasRun
    /\ run.args.transaction
    /\ run.args.data_to_sign = "psbt1"
    /\ Len(run.outgoing) = 1
    /\ run.data.v.alg = "sighash_ecdsa"

\* C9: a successful result carries a finalized transaction exactly when
\* transaction is true; without it FinalizeTransaction is never executed and
\* the result holds the public key, the address and the share path only.
C9_TransactionOnlyWhenAsked ==
    HasRun =>
      /\ ~run.args.transaction =>
            /\ run.pc # "FinalizeTransaction"
            /\ "FinalizeTransaction" \notin Range(run.trace)
      /\ run.pc = "Done" =>
            /\ run.ret.ok
            /\ (run.ret.v.signined_tx # None) <=> run.args.transaction
            /\ run.args.transaction => "FinalizeTransaction" \in Range(run.trace)
            /\ run.ret.v.pubkey = HexEncode(serialize_vec(run.public_key.v))
            /\ run.ret.v.out_dir = run.args.local_share

C9_Witness ==
    /\ HasRun
    /\ run.pc = "Done"
    /\ ~run.args.transaction
    /\ handler = "get_address"
    /\ run.ret.v.signined_tx = None

\* C10: the finalized transaction, read back from its hex, has in input 0 a
\* script of exactly two pushes, the DER signature followed by the byte 1 and
\* then the uncompressed public key; everything else of the transaction is as
\* in the payload, and the hex is a function of (r, s, public key, payload).
C10_FinalizedScript ==
    (HasRun /\ run.pc = "Done" /\ run.args.transaction) =>
      LET hex == run.ret.v.signined_tx.v
          bytes == HexDecode(hex).v
          tx == DeserializeTx(bytes)
          original == DeserializeTx(SerializeTx(
                          extract_tx(PsbtFromStr(run.args.data_to_sign).v)))
          sig == run.signature.v
          pushes == DecodePushes(tx.input[1].script_sig)
      IN  /\ tx.consumed = Len(bytes)
          /\ pushes # None
          /\ Len(pushes.v) = 2
          /\ pushes.v[1] = serialize_der(sig) \o <<1>>
          /\ pushes.v[2] = <<4>> \o run.public_key.v.x \o run.public_key.v.y
          /\ [tx EXCEPT !.input[1].script_sig = <<>>, !.consumed = 0]
               = [original EXCEPT !.input[1].script_sig = <<>>, !.consumed = 0]
          /\ hex = serialize_hex(FinalizeTransaction(run.args.data_to_sign, sig,
                                                     run.public_key.v))

C10_Witness ==
    /\ HasRun
    /\ run.pc = "Done"
    /\ run.args.data_to_sign = "psbt2"
    /\ run.signature.v.r[1] = 200
    /\ run.ret.v.signined_tx # None

\* C11: the public key and the address do_sign returns are a function of its
\* configuration and of the signature the engine computed from the share and
\* the received messages: the key is the one recovered from the digest of the
\* payload and (r, s, recovery id), and the address is the signet P2PKH address
\* of that key's uncompressed encoding, whether transaction is set or not.
C11_KeyAndAddressDetermined ==
    /\ (HasRun /\ run.pc = "Done") =>
          LET d == Digest(run.args.transaction, run.args.data_to_sign)
              key == recover(d.v, run.signature.v)
              hex == HexEncode(serialize_vec(key.v))
          IN  /\ d # None
              /\ key # None
              /\ run.public_key = key
              /\ run.ret.v.pubkey = hex
              /\ run.ret.v.address =
                    [network |-> "signet", hash160_of |-> serialize_vec(key.v)]
    /\ \A sig \in Signatures, tx \in {None, Some(<<0, 1>>)} :
          LET key == recover(sha256("m"), sig) IN
            key # None =>
              SigningResult(key.v, 1, tx).address = SigningResult(key.v, 1, None).address

C11_Witness ==
    /\ HasRun
    /\ run.pc = "Done"
    /\ handler = "sign"
    /\ run.signature.v.recid = 1
    /\ run.ret.v.address.hash160_of = serialize_vec(run.public_key.v)

\* C12: signing attempts with different payloads never share a room name,
\* whatever their attempt indices: the room of attempt i of the Sign screen
\* with payload p is SignRoom(i, p), and for every payload q # p and every
\* attempt b in 0..9 the name SignRoom(b, q) differs from it, and so do the
\* offline and online rooms made from the two names.
C12_PayloadsSeparateRooms ==
    (handler = "sign" /\ HasRun) =>
       /\ run.args.room = SignRoom(i, data_to_sign)
       /\ \A q \in SignPayloads \ {data_to_sign}, b \in 0..(MaxAttempts - 1) :
             /\ run.args.room # SignRoom(b, q)
             /\ {OfflineRoom(run.args.room), OnlineRoom(run.args.room)}
                   \cap {OfflineRoom(SignRoom(b, q)), OnlineRoom(SignRoom(b, q))}
                   = {}

C12_Witness ==
    /\ handler = "sign"
    /\ i = 3
    /\ data_to_sign = "psbt1"
    /\ joined = <<OfflineRoom(SignRoom(3, "psbt1")), OnlineRoom(SignRoom(3, "psbt1"))>>

\* C13: signing only reads the LocalShare: no step taken while a signing or
\* get-address invocation is executing, or while the do_sign call of do_keygen
\* is in progress, changes any share file, whether the run succeeds, fails or
\* is dropped by the timeout; the share a run parsed is still the file's
\* content when the run has ended.
C13_ShareOnlyRead ==
    /\ [][(handler \in Loops \/ (handler = "create" /\ keygen.pc = "DemoSign")) =>
            files'.share = files.share]_vars
    /\ []((HasRun /\ run.local_share # None) =>
            files.share[run.args.local_share] = Share(run.local_share.v))

C13_Witness ==
    /\ handler = "idle"
    /\ invoked = "get_address"
    /\ run.pc = "TimedOut"
    /\ "RunOffline" \in Range(run.trace)
    /\ files.share[run.args.local_share] = Share(run.local_share.v)

\* The rooms do_sign itself joined (do_keygen joins its own room before it
\* calls do_sign).
JoinedBySigning == SelectSeq(joined, LAMBDA room : room # KeygenRoom)

\* C14: a signing attempt joins two different rooms, the configured room
\* name followed by "-offline" and by "-online", the offline one first, and
\* every partial signature handed to the aggregation was received on the
\* inbound stream of the online room.
C14_OfflineThenOnline ==
    HasRun =>
      LET offline == run.args.room \o <<Lit("-offline")>>
          online == run.args.room \o <<Lit("-online")>>
      IN  /\ offline # online
          /\ JoinedBySigning \in {<<>>, <<offline>>, <<offline, online>>}
          /\ run.sources \subseteq {online}
          /\ run.partial_signatures > 0 => run.sources = {online}
          /\ run.completed_with # None => Len(JoinedBySigning) = 2

C14_Witness ==
    /\ HasRun
    /\ run.pc = "RecoverPubkey"
    /\ run.completed_with = Some(1)
    /\ run.sources = {run.args.room \o <<Lit("-online")>>}
    /\ JoinedBySigning[1] = run.args.room \o <<Lit("-offline")>>

\* C15: every ceremony invocation, key generation included, is retried: an
\* invocation that has ended without a successful attempt has run 10 attempts.
C15_EveryCeremonyRetried ==
    (handler = "idle" /\ invoked # "none") =>
       LET succeeded == IF invoked = "create" THEN keygen.pc = "Done"
                        ELSE ok_writes = 1
       IN  ~succeeded => started = MaxAttempts

\* C16: do_keygen starts no signing ceremony: while the Create handler is
\* executing no do_sign run exists and no signing room is joined, and
\* do_keygen fails only with an error of the exclusive create, the join, the
\* engine or the persist.
C16_KeygenStartsNoSigning ==
    handler = "create" =>
       /\ run = NoRun
       /\ JoinedBySigning = <<>>
       /\ keygen.pc = "Failed" =>
             keygen.ret.e \in {"cannot create output file", "join computation",
                               "keygen new",
                               "protocol execution terminated with error",
                               "save output to file"}

\* C17: a do_keygen attempt that fails after the exclusive create succeeded
\* (so the output file did not exist when it started) leaves no output file
\* behind: the files are as they were before the attempt.
C17_FailedAttemptCommitsNothing ==
    (handler = "create" /\ keygen.pc = "Failed"
       /\ keygen.ret # Err("cannot create output file")) =>
          files.share[keygen.config.output] = None

\* C18: a do_sign run sends its partial signature at most once, as a
\* broadcast, and only after the offline stage has completed and the digest
\* has been computed; a run that has not executed ExchangePartial, or that
\* failed in it at SignManual::new, has sent nothing.
C18_PartialSentOnce ==
    HasRun =>
      /\ Len(run.outgoing) <= 1
      /\ \A k \in 1..Len(run.outgoing) :
            /\ run.outgoing[k].receiver = None
            /\ run.data # None
            /\ run.outgoing[k].body = PartialSignature(run.data.v, run.args.idx)
      /\ run.outgoing # <<>> =>
            /\ IsPrefix(<<"ReadShare", "JoinOffline", "RunOffline", "JoinOnline",
                          "ComputeDigest", "ExchangePartial">>, run.trace)
            /\ Len(JoinedBySigning) = 2
      /\ "ExchangePartial" \notin Range(run.trace) => run.outgoing = <<>>
      /\ (run.pc = "Failed" /\ run.ret.e = "sign manual") => run.outgoing = <<>>
      /\ run.pc \in {"Collect", "Aggregate", "RecoverPubkey", "FinalizeTransaction",
                     "DeriveAddressOnly", "Done"} => Len(run.outgoing) = 1

C18_Witness ==
    /\ HasRun
    /\ run.pc = "Failed"
    /\ run.ret = Err("receive partial signature")
    /\ Len(run.outgoing) = 1
    /\ run.outgoing[1].receiver = None

C20_EveryErrorRetried ==
    /\ [][(handler \in Loops /\ run.pc \in {"Failed", "TimedOut"}
             /\ i + 1 < MaxAttempts) =>
            /\ handler' = handler
            /\ i' = i + 1
            /\ started' = started + 1
            /\ run' = NewRun(AttemptConfig(handler, i + 1, data_to_sign,
                                           participant_index))
            /\ files'.error_raw = Some([attempt |-> i, e |-> run.ret.e])]_vars
    /\ [][(handler \in Loops /\ handler' = "idle" /\ ~run.ret.ok) =>
            i = MaxAttempts - 1]_vars

C20_Witness ==
    /\ handler \in Loops
    /\ i = 2
    /\ run.pc = "ReadShare"
    /\ files.share[run.args.local_share] = Empty
    /\ files.error_raw = Some([attempt |-> 1, e |-> "parse local share"])

\* C21: the party index the caller supplied is the identity of the attempt:
\* the broadcast partial-signature message names it as its sender, whatever
\* index the relay assigned on joining the rooms.
C21_CallerIndexIsTheIdentity ==
    HasRun =>
      \A k \in 1..Len(run.outgoing) : run.outgoing[k].sender = run.args.idx

\* C23: a signing ceremony that runs on the share of a key generation has a
\* cosigner set within that key generation's group 1..n and with more members
\* than its threshold t.
C23_CosignersFitTheKey ==
    (HasRun /\ run.local_share # None) =>
       LET key == run.local_share.v IN
         /\ Range(run.args.parties) \subseteq 1..key.n
         /\ Len(run.args.parties) > key.t

\* C22: every ceremony the UI starts is given a party index that is 1-based
\* and not greater than the ceremony's number of participants.
C22_PartyIndexInRange ==
    /\ handler = "create" =>
          keygen.config.index \in 1..keygen.config.number_of_parties
    /\ (handler \in Loops /\ HasRun) =>
          run.args.idx \in 1..Len(run.args.parties)

\* C28: from the key event that starts a ceremony invocation until the
\* invocation has returned, the UI handles no key event: the App (mode, exit
\* flag, index fields, every other field) does not change, and it shows the
\* screen of the handler that is executing.
C28_NoKeyDuringCeremony ==
    /\ [][handler # "idle" => (app' = app /\ keys' = keys)]_vars
    /\ [](handler # "idle" =>
            /\ ~app.exit
            /\ app.mode = (CASE handler = "create" -> "Create"
                             [] handler = "sign" -> "Sign"
                             [] handler = "get_address" -> "GetAddress"))

C28_Witness ==
    /\ handler = "get_address"
    /\ i = 3
    /\ run.pc = "Collect"
    /\ app.mode = "GetAddress"
    /\ keys = 4

\* C29: in every mode a 'q' key event sets the exit flag, and once the exit
\* flag is set no further key event is handled.
C29_QuitsEverywhere ==
    /\ RunLoopReady(app, handler) =>
          \A typed \in SignPayloads : handle_key_event(app, "q", typed).exit
    /\ app.exit => ~RunLoopReady(app, handler)

\* C30: whenever the mode is Menu the highlighted index designates one of the
\* menu's items, so Enter in Menu mode enters some mode.
C30_MenuIndexInRange ==
    app.mode = "Menu" =>
       /\ app.create_state.selected_field <= MenuLast(app.variant)
       /\ handle_menu_input(app, "Enter").mode # "Menu"

\* C25: every signing or get-address invocation returns, after at most 10
\* attempts, whatever the relay and the peers do, each attempt ending by its
\* result or by the expiry of its timeout.
C25_InvocationTerminates ==
    /\ [](started <= MaxAttempts)
    /\ (handler \in Loops) ~> (handler = "idle")

C25_Witness ==
    /\ handler = "idle"
    /\ invoked = "sign"
    /\ started = MaxAttempts
    /\ run.pc = "TimedOut"
    /\ run.trace = <<"ReadShare", "JoinOffline", "RunOffline", "JoinOnline",
                     "ComputeDigest", "ExchangePartial">>

\* C26: room names are attempt-scoped.  The attempt a retry loop is running
\* uses the room the handler formats for its loop index, and for every other
\* loop index of the same invocation the room, its offline room and its online
\* room are different from the running attempt's room and from every room the
\* running attempt has joined.
C26_RoomsAttemptScoped ==
    (handler \in Loops /\ HasRun) =>
       /\ run.args.room = AttemptConfig(handler, i, data_to_sign, participant_index).room
       /\ \A j \in (0..(MaxAttempts - 1)) \ {i} :
             LET other == AttemptConfig(handler, j, data_to_sign, participant_index).room
             IN  /\ other # run.args.room
                 /\ {OfflineRoom(other), OnlineRoom(other)}
                       \cap ({OfflineRoom(run.args.room), OnlineRoom(run.args.room)}
                               \cup Range(joined)) = {}

C26_Witness ==
    /\ handler = "get_address"
    /\ i = 9
    /\ joined = <<OfflineRoom(GetAddressRoom(9, data_to_sign)),
                  OnlineRoom(GetAddressRoom(9, data_to_sign))>>

\* C27: public-key recovery uses the engine's recovery id and no other.  A step
\* taken from RecoverPubkey either stores the key recovered with run.signature's
\* own recovery id, or, when that id is invalid or recovery with it fails, ends
\* the attempt with an error and no public key, also when another candidate id
\* would recover a key.
C27_SingleRecoveryAttempt ==
    [][run.pc = "RecoverPubkey" =>
         LET sg == run.signature.v
             recid == RecoveryId_from_i32(sg.recid)
             sig == IF recid = None THEN None ELSE from_compact(sg.r \o sg.s, recid.v)
             public_key == IF sig = None THEN None ELSE recover(run.data.v, sig.v)
         IN  IF public_key = None
             THEN /\ run'.pc = "Failed"
                  /\ run'.public_key = None
                  /\ run'.ret.ok = FALSE
             ELSE /\ run'.pc # "Failed"
                  /\ run'.public_key = public_key
                  /\ run'.signature.v.recid = sg.recid]_vars

\* The engine's id 2 names no point although id 0 would recover a key: the
\* attempt has failed.
C27_Witness ==
    /\ HasRun
    /\ run.pc = "Failed"
    /\ run.trace[Len(run.trace)] = "RecoverPubkey"
    /\ run.signature # None
    /\ run.signature.v.recid = 2
    /\ from_compact(run.signature.v.r \o run.signature.v.s, 0) # None
    /\ recover(run.data.v, from_compact(run.signature.v.r \o run.signature.v.s, 0).v) # None
    /\ run.public_key = None

\* C24: the exchange of partial signatures cannot deadlock.  With every
\* cosigner of an attempt at ExchangePartial and a relay that delivers every
\* broadcast, every cosigner eventually is at Aggregate, and a cosigner at
\* Aggregate holds exactly one partial of each of the other cosigners, in
\* whatever order they arrived; a cosigner that is waiting has already sent.
C24_ExchangeCannotDeadlock ==
    /\ [](\A p \in DOMAIN cosigners :
            /\ cosigners[p].pc # "ExchangePartial" => Broadcast(p) \in online_room
            /\ cosigners[p].pc = "Aggregate" =>
                  Range(cosigners[p].received)
                     = {Broadcast(q) : q \in DOMAIN cosigners \ {p}})
    /\ (cosigners # <<>> /\ \A p \in DOMAIN cosigners : cosigners[p].pc = "ExchangePartial")
          ~> (\A p \in DOMAIN cosigners :
                 /\ cosigners[p].pc = "Aggregate"
                 /\ Len(cosigners[p].received) = Len(cosigners) - 1)

\* Three cosigners at Aggregate, two of which received the partials of the
\* same peers in opposite orders of sending.
C24_Witness ==
    /\ Len(cosigners) = 3
    /\ \A p \in 1..3 : cosigners[p].pc = "Aggregate"
    /\ cosigners[1].received = <<Broadcast(3), Broadcast(2)>>
    /\ cosigners[2].received = <<Broadcast(1), Broadcast(3)>>
    /\ cosigners[3].received = <<Broadcast(1), Broadcast(2)>>

\* C31: the UI mode changes only by Enter in the menu, to the mode of the
\* highlighted item (0 Create, 1 Sign, 2 Get Address), and by Esc on the
\* Create, Sign and Get Address screens, to Menu.  A step that changes the mode
\* is one of these two key events, taken by the idle run loop; no other key
\* changes the mode in any reachable state, and no step of a ceremony or of its
\* result handling does.
C31_ModeTransitions ==
    /\ [][app'.mode # app.mode =>
            /\ handler = "idle"
            /\ handler' = "idle"
            /\ IF app.mode = "Menu"
               THEN /\ app' = handle_menu_input(app, "Enter")
                    /\ app'.mode = (IF app.create_state.selected_field = 0 THEN "Create"
                                    ELSE IF app.create_state.selected_field = 1 THEN "Sign"
                                    ELSE "GetAddress")
               ELSE app' = [app EXCEPT !.mode = "Menu"]]_vars
    /\ [](\A key \in Keys, typed \in SignPayloads :
            ~(\/ app.mode = "Menu" /\ key = "Enter"
              \/ app.mode # "Menu" /\ key = "Esc")
               => handle_key_event(app, key, typed).mode = app.mode)
    /\ [](\A typed \in SignPayloads :
            app.mode # "Menu" => handle_key_event(app, "Esc", typed).mode = "Menu")

\* Menu to Get Address by Enter on item 2, a get-address ceremony that used all
\* its attempts, and back to Menu by Esc.
C31_Witness ==
    /\ app.variant = "bs_ui"
    /\ app.mode = "Menu"
    /\ app.create_state.selected_field = 2
    /\ handler = "idle"
    /\ invoked = "get_address"
    /\ started = MaxAttempts
    /\ keys = 5

=============================================================================
